---- MODULE Spec2Model ----
(***************************************************************************)
(* A model of the supply-chain server: the WebSocket ConnectionManager     *)
(* (src/server.py), the truck fleet and performance metrics held by        *)
(* WalmartSupplyChainCrew and its methods (src/crew.py), and the pure      *)
(* tools RouteOptimizationTool, TruckDispatchTool and                      *)
(* DemandForecastingTool (src/crew.py).                                    *)
(*                                                                         *)
(* Floats are fixed-point integers: efficiencies and scores in tenths or   *)
(* hundredths, distances in tenths of a mile (the unit is stated where a   *)
(* quantity is defined).                                                   *)
(***************************************************************************)
EXTENDS Integers, Sequences, FiniteSets, TLC

\* ------------------------------------------------------------------ bounds
\* WebSocket handles that may ever connect under Spec.
NumHandles == 2
\* Messages that may ever be broadcast under Spec (one broadcast call each).
MaxMsgs == 1
\* WebSocket handles that may ever connect under SpecFleet.
NumFleetHandles == 1
\* Messages that may ever be broadcast under SpecFleet.
MaxFleetMsgs == 2
\* Telemetry ticks that may ever run under SpecFleet.
MaxTicks == 1
\* WebSocket handles that may ever connect under SpecJoin.
NumJoinHandles == 3
\* Messages that may ever be broadcast under SpecTelemetry.
MaxTelemetryMsgs == 2

Max(a, b) == IF a >= b THEN a ELSE b
Min(a, b) == IF a <= b THEN a ELSE b

Handles == 1..NumHandles
FleetHandles == 1..NumFleetHandles
JoinHandles == 1..NumJoinHandles
AllHandles == 1..Max(Max(NumHandles, NumFleetHandles), NumJoinHandles)
Msgs == 1..MaxMsgs
FleetMsgs == 1..MaxFleetMsgs
TelemetryMsgs == 1..MaxTelemetryMsgs
AllMsgs == 1..Max(Max(MaxMsgs, MaxFleetMsgs), MaxTelemetryMsgs)

\* What an inbox holds: the initial system_status snapshot, or message m of
\* a broadcast.
Snapshot == [type |-> "system_status", msg |-> 0]
Broadcast(m) == [type |-> "broadcast", msg |-> m]

VARIABLES
    active_connections, \* ConnectionManager.active_connections: list of handles
    ws,                 \* per handle: position of its websocket_endpoint coroutine
    open,               \* per handle: TRUE while the connection can carry a send
    stalled,            \* the handles whose client has stopped reading
    inbox,              \* per handle: the messages handed to its send_text, in order
    bc,                 \* per message: the state of the broadcast call that sends it
    trucks,             \* WalmartSupplyChainCrew.trucks: the fleet, in list order
    performance_metrics,\* WalmartSupplyChainCrew.performance_metrics
    dispatch_log,       \* per truck: route_id of the dispatch request that succeeded
    warehouses,         \* WalmartSupplyChainCrew.warehouses, in list order
    call,               \* the last call of a WalmartSupplyChainCrew method and its outcome
    tool,               \* one call of TruckDispatchTool._run: arguments and result
    planner,            \* one call of RouteOptimizationTool._run: arguments and result
    forecaster          \* one call of DemandForecastingTool._run: arguments and result

connVars == <<active_connections, ws, open, stalled, inbox, bc>>
fleetVars == <<trucks, performance_metrics, dispatch_log>>
crewVars == <<warehouses, call>>
pureVars == <<tool, planner, forecaster>>

\* ------------------------------------------------------------ list helpers
Range(s) == {s[i] : i \in 1..Len(s)}

\* list.remove(x): removes the first occurrence (the caller checks presence;
\* Python raises ValueError when x is absent).
ListRemove(s, x) ==
    LET i == CHOOSE k \in 1..Len(s) : s[k] = x /\ \A j \in 1..(k - 1) : s[j] # x
    IN  SubSeq(s, 1, i - 1) \o SubSeq(s, i + 1, Len(s))

\* ------------------------------------------------------- ConnectionManager
\* A broadcast call that has not started.
BcUnused ==
    [pc |-> "unused", caller |-> "none", idx |-> 1, cur |-> 0,
     start |-> {}, failed |-> {}, got |-> {}]

\* The top of `for connection in self.active_connections`: the list iterator
\* holds an index into the live list; the next element is fetched and
\* send_text is called on it, or the loop (and the broadcast) ends and the
\* iterator is dropped (idx = 0).
BcFetch(rec, conns) ==
    IF rec.idx <= Len(conns)
    THEN [rec EXCEPT !.pc = "sending", !.cur = conns[rec.idx], !.idx = rec.idx + 1]
    ELSE [rec EXCEPT !.pc = "done", !.cur = 0, !.idx = 0]

\* The inboxes after the broadcast of message m moved to `rec`: the message
\* is handed to send_text of the connection just fetched.
Handed(box, rec, m) ==
    IF rec.pc = "sending"
    THEN [box EXCEPT ![rec.cur] = Append(box[rec.cur], Broadcast(m))]
    ELSE box

\* A variant of disconnect that forgets the removal.
disconnectKeep(conns, c) == conns

\* ConnectionManager.disconnect: remove the handle from the list.
disconnect(conns, c) == ListRemove(conns, c)

\* The removal in broadcast's except clause.
RemoveBroken(conns, c) == ListRemove(conns, c)

\* manager.broadcast is called: the loop starts and runs to its first
\* suspension (the first send), or ends at once on an empty list.
Begun(caller) ==
    BcFetch([BcUnused EXCEPT !.caller = caller, !.start = Range(active_connections)],
            active_connections)

\* Message m is free, and is the next one to be used.
Fresh(m) ==
    /\ bc[m].pc = "unused"
    /\ \A k \in AllMsgs : k < m => bc[k].pc # "unused"

\* A caller awaits manager.broadcast(message m).
BroadcastBegin(m, caller) ==
    /\ Fresh(m)
    /\ bc' = [bc EXCEPT ![m] = Begun(caller)]
    /\ inbox' = Handed(inbox, Begun(caller), m)

\* An endpoint that changes no fleet state (analyze, forecast-demand,
\* emergency-restock) publishes a message.
Publish(m) ==
    /\ BroadcastBegin(m, "publish")
    /\ UNCHANGED <<active_connections, ws, open, fleetVars, crewVars, pureVars, stalled>>

\* `await connection.send_text(message)` returns: the loop goes on. The send
\* returns once the client has taken the frame: never while the client has
\* stopped reading.
SendReturn(m) ==
    /\ bc[m].pc = "sending"
    /\ open[bc[m].cur]
    /\ bc[m].cur \notin stalled
    /\ LET rec == BcFetch([bc[m] EXCEPT !.got = @ \cup {bc[m].cur}], active_connections)
       IN  /\ bc' = [bc EXCEPT ![m] = rec]
           /\ inbox' = Handed(inbox, rec, m)
    /\ UNCHANGED <<active_connections, ws, open, fleetVars, crewVars, pureVars, stalled>>

\* `await connection.send_text(message)` raises: the bare except removes the
\* connection from the live list and the loop goes on; list.remove raises
\* ValueError out of broadcast when the connection is no longer in the list.
SendRaise(m) ==
    /\ bc[m].pc = "sending"
    /\ ~open[bc[m].cur]
    /\ LET c == bc[m].cur
           failedRec == [bc[m] EXCEPT !.failed = @ \cup {c}]
       IN  IF c \in Range(active_connections)
           THEN LET conns == RemoveBroken(active_connections, c)
                    rec == BcFetch(failedRec, conns)
                IN  /\ active_connections' = conns
                    /\ bc' = [bc EXCEPT ![m] = rec]
                    /\ inbox' = Handed(inbox, rec, m)
           ELSE /\ bc' = [bc EXCEPT ![m] = [failedRec EXCEPT !.pc = "raised", !.cur = 0, !.idx = 0]]
                /\ UNCHANGED <<active_connections, inbox>>
    /\ UNCHANGED <<ws, open, fleetVars, crewVars, pureVars, stalled>>

\* ------------------------------------------------------ websocket_endpoint
\* A variant of the handler's start that sends no snapshot.
ConnectNoSnapshot(c) ==
    /\ ws[c] = "new"
    /\ \A k \in AllHandles : k < c => ws[k] # "new"
    /\ active_connections' = Append(active_connections, c)
    /\ ws' = [ws EXCEPT ![c] = "snapshot"]
    /\ UNCHANGED <<open, inbox, bc, fleetVars, crewVars, pureVars, stalled>>

\* manager.connect: accept, append to the list; then the handler calls
\* send_text with the system_status snapshot (no suspension in between).
Connect(c) ==
    /\ ws[c] = "new"
    /\ \A k \in AllHandles : k < c => ws[k] # "new"
    /\ active_connections' = Append(active_connections, c)
    /\ ws' = [ws EXCEPT ![c] = "snapshot"]
    /\ inbox' = [inbox EXCEPT ![c] = Append(@, Snapshot)]
    /\ UNCHANGED <<open, bc, fleetVars, crewVars, pureVars, stalled>>

\* The except clauses of websocket_endpoint: manager.disconnect(websocket),
\* after which the handler returns and the server closes the connection.
\* ValueError leaves the handler when a broadcast already removed the handle.
HandlerExit(c) ==
    /\ IF c \in Range(active_connections)
       THEN /\ active_connections' = disconnect(active_connections, c)
            /\ ws' = [ws EXCEPT ![c] = "ended"]
       ELSE /\ ws' = [ws EXCEPT ![c] = "crashed"]
            /\ UNCHANGED active_connections
    /\ open' = [open EXCEPT ![c] = FALSE]
    /\ UNCHANGED <<inbox, bc, fleetVars, crewVars, pureVars, stalled>>

\* The snapshot send returns: the handler enters its receive loop.
SnapshotSent(c) ==
    /\ ws[c] = "snapshot"
    /\ open[c]
    /\ c \notin stalled
    /\ ws' = [ws EXCEPT ![c] = "receive"]
    /\ UNCHANGED <<active_connections, open, inbox, bc, fleetVars, crewVars, pureVars, stalled>>

\* The snapshot send raises (the client is gone): except Exception.
SnapshotFailed(c) ==
    /\ ws[c] = "snapshot"
    /\ ~open[c]
    /\ HandlerExit(c)

\* receive_text raises WebSocketDisconnect: the client is gone.
ReceiveDisconnect(c) ==
    /\ ws[c] = "receive"
    /\ ~open[c]
    /\ HandlerExit(c)

\* receive_text returns text that json.loads or message.get rejects:
\* except Exception, with the connection still open.
ReceiveBadMessage(c) ==
    /\ ws[c] = "receive"
    /\ open[c]
    /\ HandlerExit(c)

\* The environment: the client of a connected handle goes away.
ClientClose(c) ==
    /\ ws[c] \in {"snapshot", "receive"}
    /\ open[c]
    /\ open' = [open EXCEPT ![c] = FALSE]
    /\ UNCHANGED <<active_connections, ws, inbox, bc, fleetVars, crewVars, pureVars, stalled>>

\* The environment: the client of a connected handle stops reading while
\* its connection stays open (a slow or hung subscriber).
ClientStall(c) ==
    /\ ws[c] \in {"snapshot", "receive"}
    /\ open[c]
    /\ c \notin stalled
    /\ stalled' = stalled \cup {c}
    /\ UNCHANGED <<active_connections, ws, open, inbox, bc, fleetVars, crewVars, pureVars>>

ConnInit ==
    /\ stalled = {}
    /\ active_connections = << >>
    /\ ws = [c \in AllHandles |-> "new"]
    /\ open = [c \in AllHandles |-> TRUE]
    /\ inbox = [c \in AllHandles |-> << >>]
    /\ bc = [m \in AllMsgs |-> BcUnused]

\* ------------------------------------------------- WalmartSupplyChainCrew
\* Truck(...) of _initialize_trucks. efficiency is in tenths of a percent;
\* lat and lng are the displacement from the seeded position, and
\* fuel_saved and co2_reduced the accumulated amount, in units of one
\* telemetry draw.
Truck(id, capacity, efficiency) ==
    [id |-> id, capacity |-> capacity, current_load |-> 0, lat |-> 0, lng |-> 0,
     status |-> "idle", route |-> << >>, efficiency |-> efficiency,
     fuel_saved |-> 0, co2_reduced |-> 0, completed_stops |-> 0, total_stops |-> 0]

_initialize_trucks ==
    << Truck("T001", 100, 985), Truck("T002", 120, 972),
       Truck("T003", 110, 968), Truck("T004", 95, 980) >>

\* The ids of _initialize_warehouses.
WarehouseIds == 1..5

\* efficiency_score is in tenths.
InitialMetrics ==
    [total_distance_saved |-> 0, fuel_saved |-> 0, co2_reduced |-> 0,
     efficiency_score |-> 0, active_routes |-> 0]

\* The cap min(99, ...) on efficiency_score, in tenths.
ScoreCap == 990
\* The +0.5 of optimize_route, in tenths.
ScoreStep == 5

\* "Update performance metrics" of WalmartSupplyChainCrew.optimize_route.
OptimizeMetrics(pm) ==
    [pm EXCEPT !.active_routes = @ + 1,
               !.efficiency_score = Min(ScoreCap, @ + ScoreStep)]

FleetInit ==
    /\ trucks = _initialize_trucks
    /\ performance_metrics = InitialMetrics
    /\ dispatch_log = [t \in 1..Len(_initialize_trucks) |-> 0]

\* ------------------------------- WalmartSupplyChainCrew: the crew methods
\* Warehouse(...) of _initialize_warehouses: the id and the inventory dict,
\* a function from the products it holds to units.
Warehouse(id, inventory) == [id |-> id, inventory |-> inventory]

Inventory(cereal, milk, juice, bread) ==
    [p \in {"cereal", "milk", "juice", "bread"} |->
        CASE p = "cereal" -> cereal [] p = "milk" -> milk
          [] p = "juice" -> juice [] p = "bread" -> bread]

_initialize_warehouses ==
    << Warehouse(1, Inventory(1250, 890, 650, 420)),
       Warehouse(2, Inventory(890, 1100, 300, 380)),
       Warehouse(3, Inventory(650, 480, 720, 290)),
       Warehouse(4, Inventory(320, 240, 180, 150)),
       Warehouse(5, Inventory(180, 160, 140, 120)) >>

\* The regions of _initialize_demand_history.
_initialize_demand_history == {"Dallas", "Houston", "Austin"}

\* The longest warehouse list, other than the seeded one, that the crew
\* methods are run on, and the most routes they plan.
MaxCrewWarehouses == 2
MaxCrewRoutes == 2

\* Inventory dicts around the donor threshold: no milk key, and milk at the
\* critical level, at the threshold, just over it and well over it.
StockShapes ==
    {[p \in {} |-> 0]} \cup {[p \in {"milk"} |-> q] : q \in {15, 100, 101, 890}}

WarehouseLists(longest) ==
    {_initialize_warehouses}
    \cup UNION {{[i \in 1..n |-> Warehouse(i, f[i])] : f \in [1..n -> StockShapes]} :
                n \in 0..longest}

\* The seeded fleet with any of its trucks dispatched.
FleetStates ==
    {[t \in 1..Len(_initialize_trucks) |->
         [_initialize_trucks[t] EXCEPT !.status = st[t]]] :
     st \in [1..Len(_initialize_trucks) -> {"idle", "en-route"}]}

\* A variant of the lookup that finds a warehouse for every id.
FoundAlways(whs, id) == TRUE

\* next((w for w in whs if w.id == id), None) finds a warehouse.
Found(whs, id) == \E i \in 1..Len(whs) : whs[i].id = id

\* w.inventory.get(product, 0)
InventoryGet(w, product) ==
    IF product \in DOMAIN w.inventory THEN w.inventory[product] ELSE 0

\* A variant of the source filter that also takes a warehouse holding
\* exactly 100 units.
SourceWarehousesFrom100(whs, warehouse_id, product) ==
    SelectSeq(whs, LAMBDA w : w.id # warehouse_id /\ InventoryGet(w, product) >= 100)

\* [asdict(w) for w in self.warehouses
\*  if w.id != warehouse_id and w.inventory.get(product, 0) > 100]
SourceWarehouses(whs, warehouse_id, product) ==
    SelectSeq(whs, LAMBDA w : w.id # warehouse_id /\ InventoryGet(w, product) > 100)

\* [asdict(t) for t in self.trucks if t.status == 'idle']
IdleTrucks(trs) == SelectSeq(trs, LAMBDA t : t.status = "idle")

\* What a call record holds before any task is built.
NoTask == [sources |-> << >>, trucks |-> << >>]
NoCall ==
    [method |-> "none", id |-> 0, name |-> "", outcome |-> "none", kickoff |-> FALSE,
     task |-> NoTask, result |-> [keys |-> {}, success |-> FALSE, error |-> ""]]

\* A dict returned by a crew method: `keys` are its keys.
Failure(error) == [keys |-> {"success", "error"}, success |-> FALSE, error |-> error]
Success(keys) == [keys |-> {"success", "timestamp"} \cup keys, success |-> TRUE, error |-> ""]

\* A crew method was called with a warehouse id (or 0) and a region or
\* product name (or ""), and returned `result` without building a task.
ReturnedAtOnce(method, id, name, result) ==
    [NoCall EXCEPT !.method = method, !.id = id, !.name = name,
                   !.outcome = "returned", !.result = result]

\* The same call built a task from `task` and ran temp_crew.kickoff(), which
\* returned (ok) or raised: the agent's answer is text the method passes on
\* unread.
KickedOff(method, id, name, task, ok, result) ==
    [NoCall EXCEPT !.method = method, !.id = id, !.name = name, !.kickoff = TRUE,
                   !.task = task,
                   !.outcome = IF ok THEN "returned" ELSE "raised",
                   !.result = IF ok THEN result ELSE NoCall.result]

\* WalmartSupplyChainCrew.optimize_route(origin_warehouse_id, ...).
CrewOptimizeRoute(origin, ok) ==
    /\ IF ~Found(warehouses, origin)
       THEN /\ call' = ReturnedAtOnce("optimize_route", origin, "",
                                      Failure("Origin warehouse not found"))
            /\ UNCHANGED performance_metrics
       ELSE /\ call' = KickedOff("optimize_route", origin, "",
                                 [NoTask EXCEPT !.trucks = IdleTrucks(trucks)], ok,
                                 Success({"optimization_result"}))
            /\ IF ok
               THEN /\ performance_metrics.active_routes < MaxCrewRoutes
                    /\ performance_metrics' = OptimizeMetrics(performance_metrics)
               ELSE UNCHANGED performance_metrics
    /\ UNCHANGED <<connVars, trucks, dispatch_log, warehouses, pureVars>>

\* WalmartSupplyChainCrew.forecast_demand(region, days_ahead).
CrewForecastDemand(region, ok) ==
    /\ call' = IF region \notin _initialize_demand_history
               THEN ReturnedAtOnce("forecast_demand", 0, region,
                                   Failure("No historical data for region"))
               ELSE KickedOff("forecast_demand", 0, region, NoTask, ok,
                              Success({"region", "forecast_horizon", "forecast_result"}))
    /\ UNCHANGED <<connVars, fleetVars, warehouses, pureVars>>

\* WalmartSupplyChainCrew.handle_emergency_restock(warehouse_id, product,
\* critical_level).
CrewEmergencyRestock(warehouse_id, product, ok) ==
    /\ call' = IF ~Found(warehouses, warehouse_id)
               THEN ReturnedAtOnce("handle_emergency_restock", warehouse_id, product,
                                   Failure("Target warehouse not found"))
               ELSE KickedOff("handle_emergency_restock", warehouse_id, product,
                              [sources |-> SourceWarehouses(warehouses, warehouse_id, product),
                               trucks |-> IdleTrucks(trucks)], ok,
                              Success({"emergency_type", "warehouse", "product",
                                       "action_plan"}))
    /\ UNCHANGED <<connVars, fleetVars, warehouses, pureVars>>

\* --------------------------------- WalmartSupplyChainCrew.get_real_time_status
\* Consecutive calls of get_real_time_status that are told apart.
MaxStatusCalls == 2

\* sum(w.inventory.values()) for the products named in `keys`.
RECURSIVE SumValues(_, _)
SumValues(inventory, keys) ==
    IF keys = {} THEN 0
    ELSE LET k == CHOOSE x \in keys : TRUE
         IN  inventory[k] + SumValues(inventory, keys \ {k})

\* sum(sum(w.inventory.values()) for w in self.warehouses)
RECURSIVE TotalInventory(_)
TotalInventory(whs) ==
    IF whs = << >> THEN 0
    ELSE SumValues(Head(whs).inventory, DOMAIN Head(whs).inventory)
         + TotalInventory(Tail(whs))

\* len([t for t in self.trucks if t.status != 'idle'])
ActiveTrucks(fleet) == Cardinality({t \in 1..Len(fleet) : fleet[t].status # "idle"})

\* sum(t.efficiency for t in self.trucks), in tenths of a percent.
RECURSIVE SumEfficiency(_)
SumEfficiency(fleet) ==
    IF fleet = << >> THEN 0
    ELSE Head(fleet).efficiency + SumEfficiency(Tail(fleet))

\* round(n / d, 1) for n in tenths: the nearest tenth, a tie to the even one.
RoundHalfEven(n, d) ==
    LET q == n \div d
        r == n % d
    IN  IF 2 * r < d THEN q
        ELSE IF 2 * r > d THEN q + 1
        ELSE IF q % 2 = 0 THEN q ELSE q + 1

\* The dict get_real_time_status returns (without its timestamp and its
\* constant entries); asdict copies each dataclass into the details lists.
StatusDict(whs, fleet, pm) ==
    [warehouses |-> [total |-> Len(whs),
                     total_inventory |-> TotalInventory(whs),
                     details |-> whs],
     fleet |-> [total_trucks |-> Len(fleet),
                active_trucks |-> ActiveTrucks(fleet),
                idle_trucks |-> Len(fleet) - ActiveTrucks(fleet),
                average_efficiency |-> RoundHalfEven(SumEfficiency(fleet), Len(fleet)),
                details |-> fleet],
     performance_metrics |-> pm]

\* The record of a call of get_real_time_status: `nth` counts the calls
\* made in a row.
StatusCall(nth, result) ==
    [method |-> "get_real_time_status", nth |-> nth, outcome |-> "returned",
     result |-> result]

\* How many calls of get_real_time_status were the last calls of the crew.
StatusCallsInARow == IF call.method = "get_real_time_status" THEN call.nth ELSE 0

\* A variant of get_real_time_status that counts itself among the routes.
CrewGetStatusCounting ==
    /\ StatusCallsInARow < MaxStatusCalls
    /\ performance_metrics' =
           [performance_metrics EXCEPT !.active_routes = @ + 1]
    /\ call' = StatusCall(StatusCallsInARow + 1,
                          StatusDict(warehouses, trucks, performance_metrics'))
    /\ UNCHANGED <<connVars, trucks, dispatch_log, warehouses, pureVars>>

\* WalmartSupplyChainCrew.get_real_time_status().
CrewGetStatus ==
    /\ StatusCallsInARow < MaxStatusCalls
    /\ call' = StatusCall(StatusCallsInARow + 1,
                          StatusDict(warehouses, trucks, performance_metrics))
    /\ UNCHANGED <<connVars, fleetVars, warehouses, pureVars>>

\* The crew as constructed.
CrewOff ==
    /\ warehouses = _initialize_warehouses
    /\ call = NoCall

\* The crew before a call of one of its methods: any of the fleet's trucks
\* dispatched, and the warehouse list seeded or drawn around the threshold.
CrewInit ==
    /\ trucks \in FleetStates
    /\ performance_metrics = InitialMetrics
    /\ dispatch_log = [t \in 1..Len(trucks) |-> IF trucks[t].status = "idle" THEN 0 ELSE 1]
    /\ warehouses \in WarehouseLists(MaxCrewWarehouses)
    /\ call = NoCall

\* ------------------------------------------------- POST /api/dispatch-truck
\* The routes a dispatch request may name: route r was planned with one
\* pickup followed by r deliveries.
RouteIds == {1, 2}
PlannedWaypoints(r) ==
    [i \in 1..(r + 1) |-> [type |-> IF i = 1 THEN "pickup" ELSE "delivery", stop |-> i]]

\* "Update truck status" of dispatch_truck.
DispatchUpdate(truck, r) == [truck EXCEPT !.status = "en-route"]

\* A variant of the test that lets a busy truck be dispatched again.
DispatchableAny(truck) == TRUE

\* The truck passes `if truck.status != 'idle': raise HTTPException(400)`.
Dispatchable(truck) == truck.status = "idle"

\* dispatch_truck for a truck that is not idle: HTTPException is raised
\* before any assignment or broadcast, and `except Exception` turns it into
\* the 500 response. The record of the request is all that changes.
DispatchTruckRejected(t) ==
    /\ ~Dispatchable(trucks[t])
    /\ call' = [NoCall EXCEPT !.method = "dispatch_truck", !.id = t,
                              !.outcome = "raised"]
    /\ UNCHANGED <<connVars, fleetVars, warehouses, pureVars>>

\* dispatch_truck for truck_id = trucks[t].id and route_id = r: the truck is
\* found and idle, its record is updated, truck_dispatched is broadcast.
\* (An unknown truck_id and a truck that is not idle raise HTTPException
\* before any assignment: no state changes.)
DispatchTruck(t, r, m) ==
    /\ Dispatchable(trucks[t])
    /\ trucks' = [trucks EXCEPT ![t] = DispatchUpdate(trucks[t], r)]
    /\ dispatch_log' = [dispatch_log EXCEPT ![t] = r]
    /\ BroadcastBegin(m, "truck_dispatched")
    /\ UNCHANGED <<active_connections, ws, open, stalled, performance_metrics, crewVars, pureVars>>

\* ------------------------------------------------ POST /api/optimize-route
\* optimize_route (server): route_optimization_started is broadcast.
OptimizeRouteBegin(m) ==
    /\ BroadcastBegin(m, "optimize_started")
    /\ UNCHANGED <<active_connections, ws, open, fleetVars, crewVars, pureVars, stalled>>

\* The first broadcast of the request of message m has returned.
OptimizeReady(m) ==
    /\ bc[m].caller = "optimize_started"
    /\ bc[m].pc = "done"

\* WalmartSupplyChainCrew.optimize_route with a known origin warehouse: the
\* crew runs, the metrics are updated, then route_optimization_complete
\* (message m2) is broadcast.
OptimizeRouteRun(m, m2) ==
    /\ OptimizeReady(m)
    /\ Fresh(m2)
    /\ performance_metrics' = OptimizeMetrics(performance_metrics)
    /\ bc' = [bc EXCEPT ![m].caller = "optimize_resumed",
                        ![m2] = Begun("optimize_complete")]
    /\ inbox' = Handed(inbox, Begun("optimize_complete"), m2)
    /\ UNCHANGED <<active_connections, ws, open, stalled, trucks, dispatch_log, crewVars, pureVars>>

\* WalmartSupplyChainCrew.optimize_route with an unknown origin warehouse:
\* a failure result is returned at once and broadcast as the completion.
OptimizeRouteNotFound(m, m2, origin) ==
    /\ OptimizeReady(m)
    /\ origin \notin WarehouseIds
    /\ Fresh(m2)
    /\ bc' = [bc EXCEPT ![m].caller = "optimize_resumed",
                        ![m2] = Begun("optimize_complete")]
    /\ inbox' = Handed(inbox, Begun("optimize_complete"), m2)
    /\ UNCHANGED <<active_connections, ws, open, fleetVars, crewVars, pureVars, stalled>>

\* temp_crew.kickoff() raises (the LLM call fails): the endpoint's except
\* answers 500; nothing is updated and nothing more is broadcast.
OptimizeRouteError(m) ==
    /\ OptimizeReady(m)
    /\ bc' = [bc EXCEPT ![m].caller = "optimize_resumed"]
    /\ UNCHANGED <<active_connections, ws, open, inbox, fleetVars, crewVars, pureVars, stalled>>

\* ---------------------------------------------- simulate_real_time_updates
\* random.uniform(-0.001, 0.001), in units of one draw.
Jitter == {-1, 1}
\* A variant of the gains that can also be negative.
GainSigned == {-1, 0, 1}

\* random.uniform(0, 0.1) and random.uniform(0, 0.3), in units of one draw.
Gain == {0, 1}
\* random.uniform(-0.5, 0.5), in tenths.
Walk == {-5, 0, 5}

Draws == [lat : Jitter, lng : Jitter, fuel : Gain, co2 : Gain]

\* A variant of the updates that also lets the truck arrive.
DriftArrive(truck, d) ==
    [truck EXCEPT !.lat = @ + d.lat, !.lng = @ + d.lng,
                  !.fuel_saved = @ + d.fuel, !.co2_reduced = @ + d.co2,
                  !.status = "idle"]

\* The four updates under `if truck.status == 'en-route'`.
Drift(truck, d) ==
    [truck EXCEPT !.lat = @ + d.lat, !.lng = @ + d.lng,
                  !.fuel_saved = @ + d.fuel, !.co2_reduced = @ + d.co2]

\* A variant of the score update without the cap.
TickMetricsNoCap(pm, w) == [pm EXCEPT !.efficiency_score = @ + w]

\* "Update performance metrics" of simulate_real_time_updates.
TickMetrics(pm, w) == [pm EXCEPT !.efficiency_score = Min(ScoreCap, @ + w)]

\* A variant of the test that lets every truck drift.
EnRouteAll == 1..Len(trucks)

\* The trucks that pass `if truck.status == 'en-route'`.
EnRoute == {t \in 1..Len(trucks) : trucks[t].status = "en-route"}

\* The ticks run so far, and whether the loop is still inside one.
TickMsgs == {k \in AllMsgs : bc[k].caller = "real_time_update"}
TickRunning == \E k \in TickMsgs : bc[k].pc = "sending"

\* One pass of the loop with at least one connection: the en-route trucks
\* drift, the efficiency score walks, real_time_update is broadcast. (With no
\* connection the pass changes nothing and sleeps.)
TickPass(m) ==
    /\ Len(active_connections) > 0
    /\ ~TickRunning
    /\ Fresh(m)
    /\ \E d \in [EnRoute -> Draws], w \in Walk :
          /\ trucks' = [t \in 1..Len(trucks) |->
                           IF t \in EnRoute THEN Drift(trucks[t], d[t]) ELSE trucks[t]]
          /\ performance_metrics' = TickMetrics(performance_metrics, w)
    /\ BroadcastBegin(m, "real_time_update")
    /\ UNCHANGED <<active_connections, ws, open, stalled, dispatch_log, crewVars, pureVars>>

\* One pass of the loop with no connection: the test of line 421 fails, the
\* pass changes nothing and sleeps.
TickIdle ==
    /\ Len(active_connections) = 0
    /\ ~TickRunning
    /\ UNCHANGED <<connVars, fleetVars, crewVars, pureVars>>

\* A pass of the loop while fewer than MaxTicks have run.
Tick(m) ==
    /\ Cardinality(TickMsgs) < MaxTicks
    /\ TickPass(m)

\* ------------------------------------------------------- TruckDispatchTool
\* Truck dicts that may be passed to the tool, and the longest list of them.
MaxToolTrucks == 4

\* A truck dict as the tool reads it: `keys` are the keys present (get()
\* supplies the default for an absent one); the id is the list position.
\* An idle truck has any of the seeded efficiencies or no efficiency key; a
\* truck that is not idle (the tool does not read its efficiency) has the
\* highest one.
ToolEfficiencies == {968, 972, 980, 985}
ToolTruckShapes ==
    [keys : {{"id", "status", "efficiency"}}, status : {"idle"},
     efficiency : ToolEfficiencies]
    \cup [keys : {{"id", "status"}}, status : {"idle"}, efficiency : {0}]
    \cup [keys : {{"id", "status", "efficiency"}}, status : {"en-route", "loading"},
          efficiency : {985}]

ToolTruck(shape, i) ==
    [id |-> i, keys |-> shape.keys, status |-> shape.status,
     efficiency |-> shape.efficiency, route |-> << >>, total_stops |-> 0]

ToolFleets(longest) ==
    UNION {{[i \in 1..n |-> ToolTruck(f[i], i)] : f \in [1..n -> ToolTruckShapes]} :
           n \in 0..longest}

\* Route dicts that may be passed to the tool: with or without waypoints.
ToolRoutes ==
    {[keys |-> {"name"}, waypoints |-> << >>],
     [keys |-> {"name", "waypoints"}, waypoints |-> << >>],
     [keys |-> {"name", "waypoints"}, waypoints |-> PlannedWaypoints(1)],
     [keys |-> {"name", "waypoints"}, waypoints |-> PlannedWaypoints(2)]}

\* t.get('efficiency', 0)
EfficiencyKey(t) == IF "efficiency" \in t.keys THEN t.efficiency ELSE 0

\* route.get('waypoints', [])
RouteWaypoints(route) == IF "waypoints" \in route.keys THEN route.waypoints ELSE << >>

\* The comparison by which max() replaces its current best with a later item.
Better(item, best) == EfficiencyKey(item) > EfficiencyKey(best)

\* A variant of the filter that lets every truck through.
AvailableAll(trs) == [i \in 1..Len(trs) |-> i]

\* [t for t in trucks if t.get('status') == 'idle'], as list positions.
Available(trs) ==
    SelectSeq([i \in 1..Len(trs) |-> i], LAMBDA i : trs[i].status = "idle")

\* max(available_trucks, key=...): a left-to-right scan that keeps the
\* current best unless a later item is strictly better.
RECURSIVE MaxScan(_, _, _)
MaxScan(trs, avail, best) ==
    IF avail = << >> THEN best
    ELSE MaxScan(trs, Tail(avail),
                 IF Better(trs[Head(avail)], trs[best]) THEN Head(avail) ELSE best)

\* A variant of the scan in which a later item of equal efficiency wins.
RECURSIVE MaxScanLast(_, _, _)
MaxScanLast(trs, avail, best) ==
    IF avail = << >> THEN best
    ELSE MaxScanLast(trs, Tail(avail),
                     IF ~Better(trs[best], trs[Head(avail)]) THEN Head(avail) ELSE best)

BestTruckLast(trs, avail) == MaxScanLast(trs, Tail(avail), Head(avail))

\* best_truck = max(available_trucks, key=lambda t: t.get('efficiency', 0))
BestTruck(trs, avail) == MaxScan(trs, Tail(avail), Head(avail))

\* TruckDispatchTool._run(trucks, route): the truck dicts after the call and
\* the dict returned.
TruckDispatchTool_run(trs, route) ==
    LET avail == Available(trs)
    IN  IF avail = << >>
        THEN [trucks |-> trs,
              result |-> [success |-> FALSE,
                          error |-> "No available trucks for dispatch",
                          recommendation |-> "Wait for trucks to complete current routes",
                          dispatched_truck |-> 0, efficiency_rating |-> 0]]
        ELSE LET b == BestTruck(trs, avail)
             IN  [trucks |-> [trs EXCEPT ![b].status = "en-route",
                                         ![b].route = RouteWaypoints(route),
                                         ![b].total_stops = Len(RouteWaypoints(route))],
                  result |-> [success |-> TRUE, error |-> "", recommendation |-> "",
                              dispatched_truck |-> trs[b].id,
                              efficiency_rating |-> EfficiencyKey(trs[b])]]

NoResult ==
    [success |-> FALSE, error |-> "", recommendation |-> "",
     dispatched_truck |-> 0, efficiency_rating |-> 0]

ToolOff ==
    tool = [pc |-> "off", input |-> << >>, route |-> [keys |-> {"name"}, waypoints |-> << >>],
            trucks |-> << >>, result |-> NoResult]

ToolInit ==
    \E trs \in ToolFleets(MaxToolTrucks), route \in ToolRoutes :
        tool = [pc |-> "ready", input |-> trs, route |-> route,
                trucks |-> trs, result |-> NoResult]

\* The agent calls the tool once on its arguments.
ToolRun ==
    /\ tool.pc = "ready"
    /\ LET out == TruckDispatchTool_run(tool.input, tool.route)
       IN  tool' = [tool EXCEPT !.pc = "done", !.trucks = out.trucks, !.result = out.result]
    /\ UNCHANGED <<connVars, fleetVars, crewVars, planner, forecaster>>

\* --------------------------------------------------- RouteOptimizationTool
\* The longest warehouse list and the longest delivery list passed to the tool.
MaxWarehouses == 2
MaxDeliveries == 2

\* A warehouse or delivery dict: `keys` are the keys present. lat and lng
\* are positions in tenths of a mile on a plane grid.
Stop(name, lat, lng) ==
    [keys |-> {"name", "lat", "lng"}, name |-> name, lat |-> lat, lng |-> lng]

PlanEntries ==
    {Stop("A", 0, 0), Stop("B", 1400, 0), Stop("C", 1500, 0), Stop("D", 0, 100),
     [Stop("E", 0, 0) EXCEPT !.keys = {"name", "lng"}],
     [Stop("F", 0, 0) EXCEPT !.keys = {"name", "lat"}],
     [Stop("G", 0, 0) EXCEPT !.keys = {"lat", "lng"}]}

PlanLists(n) == UNION {[1..k -> PlanEntries] : k \in 0..n}

Abs(x) == IF x < 0 THEN -x ELSE x

\* geodesic(a, b).miles, in tenths of a mile. geopy is a library: the model
\* takes the grid distance between the two positions, which like the
\* geodesic is symmetric, zero from a point to itself and never negative.
Miles(a, b) == Abs(a.lat - b.lat) + Abs(a.lng - b.lng)

\* RouteWaypoint(...) for a warehouse and for a delivery.
PickupWaypoint(w) ==
    [lat |-> w.lat, lng |-> w.lng, type |-> "pickup", name |-> w.name,
     action |-> <<"Pickup inventory from", w.name>>]
DeliveryWaypoint(d) ==
    [lat |-> d.lat, lng |-> d.lng, type |-> "delivery", name |-> d.name,
     action |-> <<"Deliver to", d.name>>]

\* The two append loops over warehouses and deliveries.
RECURSIVE AppendPickups(_, _)
AppendPickups(wps, whs) ==
    IF whs = << >> THEN wps
    ELSE AppendPickups(Append(wps, PickupWaypoint(Head(whs))), Tail(whs))

RECURSIVE AppendDeliveries(_, _)
AppendDeliveries(wps, deliveries) ==
    IF deliveries = << >> THEN wps
    ELSE AppendDeliveries(Append(wps, DeliveryWaypoint(Head(deliveries))), Tail(deliveries))

\* A variant of the delivery loop that inserts each delivery at the front.
RECURSIVE PrependDeliveries(_, _)
PrependDeliveries(wps, deliveries) ==
    IF deliveries = << >> THEN wps
    ELSE PrependDeliveries(<<DeliveryWaypoint(Head(deliveries))>> \o wps, Tail(deliveries))

BuildWaypointsSwapped(whs, deliveries) ==
    PrependDeliveries(AppendPickups(<< >>, whs), deliveries)

\* route_waypoints after the two loops.
BuildWaypoints(whs, deliveries) ==
    AppendDeliveries(AppendPickups(<< >>, whs), deliveries)

\* "Calculate total distance": the sum over consecutive waypoints.
RECURSIVE TotalDistance(_)
TotalDistance(wps) ==
    IF Len(wps) <= 1 THEN 0
    ELSE Miles(wps[1], wps[2]) + TotalDistance(Tail(wps))

\* The bounds of max(85, min(99, ...)) and the 100 it subtracts from, in
\* hundredths of a percent.
EfficiencyFloor == 8500
EfficiencyCeiling == 9900
EfficiencyBase == 10000

\* A variant of the efficiency without the lower clamp.
RouteEfficiencyNoFloor(d) == Min(EfficiencyCeiling, EfficiencyBase - d)

\* efficiency = max(85, min(99, 100 - (total_distance / 10))), in hundredths
\* of a percent, of a distance in tenths of a mile.
RouteEfficiency(d) == Max(EfficiencyFloor, Min(EfficiencyCeiling, EfficiencyBase - d))

\* The average speed of 45 mph, in tenths of a mile per hour.
SpeedTenths == 450

\* estimated_time: whole hours and remainder minutes.
EstimatedTime(d) ==
    [hours |-> d \div SpeedTenths, minutes |-> ((d % SpeedTenths) * 60) \div SpeedTenths]

\* Every key the loops subscript is present (else KeyError).
Complete(e) == {"lat", "lng", "name"} \subseteq e.keys

NoRoute ==
    [waypoints |-> << >>, distance |-> 0, estimated_time |-> EstimatedTime(0),
     efficiency |-> 0, priority |-> "", stops |-> 0]

\* RouteOptimizationTool._run(warehouses, deliveries, truck_capacity): the
\* dict returned. A KeyError is caught by the except and reported.
RouteOptimizationTool_run(whs, deliveries) ==
    IF \/ \E i \in 1..Len(whs) : ~Complete(whs[i])
       \/ \E j \in 1..Len(deliveries) : ~Complete(deliveries[j])
    THEN [success |-> FALSE, error |-> "KeyError", route |-> NoRoute]
    ELSE LET wps == BuildWaypoints(whs, deliveries)
             d == TotalDistance(wps)
         IN  [success |-> TRUE, error |-> "",
              route |-> [waypoints |-> wps, distance |-> d,
                         estimated_time |-> EstimatedTime(d),
                         efficiency |-> RouteEfficiency(d),
                         priority |-> IF Len(deliveries) > 3 THEN "high" ELSE "medium",
                         stops |-> Len(wps)]]

PlannerOff ==
    planner = [pc |-> "off", warehouses |-> << >>, deliveries |-> << >>,
               result |-> [success |-> FALSE, error |-> "", route |-> NoRoute]]

PlannerInit ==
    \E whs \in PlanLists(MaxWarehouses), deliveries \in PlanLists(MaxDeliveries) :
        planner = [pc |-> "ready", warehouses |-> whs, deliveries |-> deliveries,
                   result |-> [success |-> FALSE, error |-> "", route |-> NoRoute]]

\* The agent calls the tool once on its arguments.
PlannerRun ==
    /\ planner.pc = "ready"
    /\ planner' = [planner EXCEPT
                      !.pc = "done",
                      !.result = RouteOptimizationTool_run(planner.warehouses,
                                                           planner.deliveries)]
    /\ UNCHANGED <<connVars, fleetVars, crewVars, tool, forecaster>>

\* --------------------------------------------------- DemandForecastingTool
\* The longest demand history drawn from Demand.
MaxHistory == 3

\* Observed demands, and the two histories named by the examples of the
\* forecaster (the Dallas cereal history of _initialize_demand_history is
\* the first).
Demand == {-30, 0, 1, 4}
ExampleHistories == {<<120, 140, 160, 180, 200>>, <<50>>}
Histories(longest) == UNION {[1..n -> Demand] : n \in 0..longest} \cup ExampleHistories

\* The keys of historical_data.
ForecastProducts == {"cereal", "milk"}

\* sum(history[-3:]) and history[-1] - history[-3].
RecentSum(h) == h[Len(h)] + h[Len(h) - 1] + h[Len(h) - 2]
TrendDiff(h) == h[Len(h)] - h[Len(h) - 2]

\* recent_avg + trend = sum/3 + diff/2, in sixths.
RawForecast6(h) == 2 * RecentSum(h) + 3 * TrendDiff(h)

\* forecast = max(0, recent_avg + trend), in sixths.
Forecast6(h) == Max(0, RawForecast6(h))

\* A variant of round() that drops the fraction.
Truncate6(n) == n \div 6

\* round(forecast) of a forecast of n sixths, n >= 0: Python rounds to the
\* nearest integer and a tie to the even one. (A tie is n = 6k + 3, where
\* sum/3 and diff/2 are exact floats; elsewhere the float error is far
\* below the 1/6 that separates n/6 from a tie.)
Round6(n) ==
    LET q == n \div 6
        r == n % 6
    IN  IF r < 3 THEN q
        ELSE IF r > 3 THEN q + 1
        ELSE IF q % 2 = 0 THEN q ELSE q + 1

\* "increasing" if trend > 0 else "decreasing" if trend < 0 else "stable"
TrendLabel(h) ==
    IF TrendDiff(h) > 0 THEN "increasing"
    ELSE IF TrendDiff(h) < 0 THEN "decreasing"
    ELSE "stable"

\* The body of the loop over historical_data.items(): the forecast of one
\* product. confidence is in hundredths.
ProductForecast(h) ==
    IF Len(h) >= 3
    THEN [predicted_demand |-> Round6(Forecast6(h)), confidence |-> 85,
          trend |-> TrendLabel(h)]
    ELSE [predicted_demand |-> IF h # << >> THEN h[Len(h)] ELSE 0, confidence |-> 50,
          trend |-> "insufficient_data"]

\* sum(f["predicted_demand"] for f in forecasts.values())
RECURSIVE TotalPredicted(_, _)
TotalPredicted(forecasts, products) ==
    IF products = {} THEN 0
    ELSE LET p == CHOOSE x \in products : TRUE
         IN  forecasts[p].predicted_demand + TotalPredicted(forecasts, products \ {p})

\* DemandForecastingTool._run(historical_data, region, time_horizon): the
\* dict returned (region and time_horizon are copied into it unread).
DemandForecastingTool_run(historical_data) ==
    LET forecasts == [p \in DOMAIN historical_data |-> ProductForecast(historical_data[p])]
    IN  [success |-> TRUE, forecasts |-> forecasts,
         total_predicted_demand |-> TotalPredicted(forecasts, DOMAIN historical_data)]

NoForecast ==
    [success |-> FALSE,
     forecasts |-> [p \in ForecastProducts |->
                       [predicted_demand |-> 0, confidence |-> 0, trend |-> ""]],
     total_predicted_demand |-> 0]

ForecasterOff ==
    forecaster = [pc |-> "off", historical_data |-> [p \in ForecastProducts |-> << >>],
                  result |-> NoForecast]

ForecasterInit ==
    \E historical_data \in [ForecastProducts -> Histories(MaxHistory)] :
        forecaster = [pc |-> "ready", historical_data |-> historical_data,
                      result |-> NoForecast]

\* The agent calls the tool once on its arguments.
ForecasterRun ==
    /\ forecaster.pc = "ready"
    /\ forecaster' = [forecaster EXCEPT
                         !.pc = "done",
                         !.result = DemandForecastingTool_run(forecaster.historical_data)]
    /\ UNCHANGED <<connVars, fleetVars, crewVars, tool, planner>>

\* ---------------------------------------------------------- specifications
vars == <<connVars, fleetVars, crewVars, pureVars, stalled>>

Init == ConnInit /\ FleetInit /\ CrewOff /\ ToolOff /\ PlannerOff /\ ForecasterOff

\* The connection manager under any callers of broadcast.
Next ==
    \/ \E c \in Handles : Connect(c)
    \/ \E c \in Handles : SnapshotSent(c)
    \/ \E c \in Handles : SnapshotFailed(c)
    \/ \E c \in Handles : ReceiveDisconnect(c)
    \/ \E c \in Handles : ReceiveBadMessage(c)
    \/ \E c \in Handles : ClientClose(c)
    \/ \E m \in Msgs : Publish(m)
    \/ \E m \in Msgs : SendReturn(m)
    \/ \E m \in Msgs : SendRaise(m)

Spec == Init /\ [][Next]_vars

\* The fleet and its metrics under the endpoints and the telemetry loop.
NextFleet ==
    \/ \E c \in FleetHandles : Connect(c)
    \/ \E c \in FleetHandles : SnapshotSent(c)
    \/ \E c \in FleetHandles : SnapshotFailed(c)
    \/ \E c \in FleetHandles : ReceiveDisconnect(c)
    \/ \E c \in FleetHandles : ReceiveBadMessage(c)
    \/ \E c \in FleetHandles : ClientClose(c)
    \/ \E t \in 1..Len(trucks), r \in RouteIds, m \in FleetMsgs : DispatchTruck(t, r, m)
    \/ \E m \in FleetMsgs : OptimizeRouteBegin(m)
    \/ \E m \in FleetMsgs : \E m2 \in FleetMsgs : OptimizeRouteRun(m, m2)
    \/ \E m \in FleetMsgs : \E m2 \in FleetMsgs : OptimizeRouteNotFound(m, m2, 0)
    \/ \E m \in FleetMsgs : OptimizeRouteError(m)
    \/ \E m \in FleetMsgs : Tick(m)
    \/ \E m \in FleetMsgs : SendReturn(m)
    \/ \E m \in FleetMsgs : SendRaise(m)

SpecFleet == Init /\ [][NextFleet]_vars

\* The connection manager with enough handles for one to leave in front of
\* the handle a broadcast is sending to while another waits behind it.
NextJoin ==
    \/ \E c \in JoinHandles : Connect(c)
    \/ \E c \in JoinHandles : SnapshotSent(c)
    \/ \E c \in JoinHandles : SnapshotFailed(c)
    \/ \E c \in JoinHandles : ReceiveDisconnect(c)
    \/ \E c \in JoinHandles : ReceiveBadMessage(c)
    \/ \E c \in JoinHandles : ClientClose(c)
    \/ \E m \in Msgs : Publish(m)
    \/ \E m \in Msgs : SendReturn(m)
    \/ \E m \in Msgs : SendRaise(m)

SpecJoin == Init /\ [][NextJoin]_vars

\* The connection manager and the telemetry loop when a client may stop
\* reading. The event loop resumes a coroutine whose await can complete: a
\* send that can return or raise eventually does.
NextStall ==
    \/ \E c \in Handles : Connect(c)
    \/ \E c \in Handles : SnapshotSent(c)
    \/ \E c \in Handles : SnapshotFailed(c)
    \/ \E c \in Handles : ReceiveDisconnect(c)
    \/ \E c \in Handles : ReceiveBadMessage(c)
    \/ \E c \in Handles : ClientClose(c)
    \/ \E c \in Handles : ClientStall(c)
    \/ \E m \in Msgs : Publish(m)
    \/ \E m \in Msgs : Tick(m)
    \/ \E m \in Msgs : SendReturn(m)
    \/ \E m \in Msgs : SendRaise(m)

SpecStall ==
    /\ Init
    /\ [][NextStall]_vars
    /\ \A m \in Msgs : WF_vars(SendReturn(m)) /\ WF_vars(SendRaise(m))

\* The fleet's telemetry and the efficiency score under one observer, the
\* telemetry loop, route planning and the dispatch of T001 or T002. The score
\* starts at 0 or at a value that steps of +0.5 have brought it to.
ScoreStarts == {0, 985, 990}
TelemetryTrucks == {1, 2}
TelemetryHandles == {1}

InitTelemetry ==
    /\ ConnInit
    /\ trucks = _initialize_trucks
    /\ performance_metrics \in
           {[InitialMetrics EXCEPT !.efficiency_score = s] : s \in ScoreStarts}
    /\ dispatch_log = [t \in 1..Len(_initialize_trucks) |-> 0]
    /\ CrewOff /\ ToolOff /\ PlannerOff /\ ForecasterOff

NextTelemetry ==
    \/ \E c \in TelemetryHandles : Connect(c)
    \/ \E c \in TelemetryHandles : SnapshotSent(c)
    \/ \E c \in TelemetryHandles : SnapshotFailed(c)
    \/ \E c \in TelemetryHandles : ReceiveDisconnect(c)
    \/ \E c \in TelemetryHandles : ReceiveBadMessage(c)
    \/ \E c \in TelemetryHandles : ClientClose(c)
    \/ \E t \in TelemetryTrucks, m \in TelemetryMsgs : DispatchTruck(t, 1, m)
    \/ \E m \in TelemetryMsgs : OptimizeRouteBegin(m)
    \/ \E m \in TelemetryMsgs : \E m2 \in TelemetryMsgs : OptimizeRouteRun(m, m2)
    \/ \E m \in TelemetryMsgs : TickPass(m)
    \/ TickIdle
    \/ \E m \in TelemetryMsgs : SendReturn(m)
    \/ \E m \in TelemetryMsgs : SendRaise(m)

SpecTelemetry == InitTelemetry /\ [][NextTelemetry]_vars

\* One call of the dispatch tool on every argument within the bounds.
InitDispatch == ConnInit /\ FleetInit /\ CrewOff /\ ToolInit /\ PlannerOff /\ ForecasterOff

NextDispatch == ToolRun

SpecDispatch == InitDispatch /\ [][NextDispatch]_vars

\* One call of the route planner on every argument within the bounds.
InitPlan == ConnInit /\ FleetInit /\ CrewOff /\ ToolOff /\ PlannerInit /\ ForecasterOff

NextPlan == PlannerRun

SpecPlan == InitPlan /\ [][NextPlan]_vars

\* One call of the demand forecaster on every argument within the bounds.
InitForecast == ConnInit /\ FleetInit /\ CrewOff /\ ToolOff /\ PlannerOff /\ ForecasterInit

NextForecast == ForecasterRun

SpecForecast == InitForecast /\ [][NextForecast]_vars

\* The crew methods called directly, as src/test.py and src/main.py call
\* them, on warehouse ids 0 (never a warehouse) to 3, a seeded region or one
\* without history, and a product that is stocked or one that is not.
InitCrew == ConnInit /\ CrewInit /\ ToolOff /\ PlannerOff /\ ForecasterOff

NextCrew ==
    \/ \E origin \in 0..3, ok \in BOOLEAN : CrewOptimizeRoute(origin, ok)
    \/ \E region \in {"Dallas", "Atlantis"}, ok \in BOOLEAN : CrewForecastDemand(region, ok)
    \/ \E warehouse_id \in 0..3, product \in {"milk", "tofu"}, ok \in BOOLEAN :
           CrewEmergencyRestock(warehouse_id, product, ok)

SpecCrew == InitCrew /\ [][NextCrew]_vars

\* Dispatch requests for the same trucks, accepted and rejected, between
\* the passes of the telemetry loop and the sends of their broadcasts.
NextRace ==
    \/ \E c \in TelemetryHandles : Connect(c)
    \/ \E c \in TelemetryHandles : SnapshotSent(c)
    \/ \E c \in TelemetryHandles : SnapshotFailed(c)
    \/ \E c \in TelemetryHandles : ReceiveDisconnect(c)
    \/ \E c \in TelemetryHandles : ReceiveBadMessage(c)
    \/ \E c \in TelemetryHandles : ClientClose(c)
    \/ \E t \in TelemetryTrucks, r \in RouteIds, m \in TelemetryMsgs : DispatchTruck(t, r, m)
    \/ \E t \in TelemetryTrucks : DispatchTruckRejected(t)
    \/ \E m \in TelemetryMsgs : TickPass(m)
    \/ TickIdle
    \/ \E m \in TelemetryMsgs : SendReturn(m)
    \/ \E m \in TelemetryMsgs : SendRaise(m)

SpecRace == Init /\ [][NextRace]_vars

\* The status query between route planning and dispatch requests, with no
\* subscriber connected: a broadcast over the empty list ends at once.
InitStatus == Init

NextStatus ==
    \/ CrewGetStatus
    \/ \E origin \in 0..1, ok \in BOOLEAN : CrewOptimizeRoute(origin, ok)
    \/ \E t \in 1..Len(trucks), r \in RouteIds, m \in FleetMsgs : DispatchTruck(t, r, m)

SpecStatus == InitStatus /\ [][NextStatus]_vars

\* ------------------------------------------------------------------ claims
\* C1: when a broadcast has finished and the subscriber list is exactly the
\* set it started with minus the subscribers whose delivery failed, every
\* subscriber of the starting set whose delivery did not fail received the
\* message.
C1_OthersStillReceive ==
    \A m \in AllMsgs :
        (/\ bc[m].pc = "done"
         /\ Range(active_connections) = bc[m].start \ bc[m].failed)
        => bc[m].got = bc[m].start \ bc[m].failed

\* C2: once disconnect has removed a handle, no broadcast hands a message to
\* that handle's send_text and no send to it returns.
C2_NothingAfterUnsubscribe ==
    [][\A c \in AllHandles :
          ws[c] = "ended"
          => /\ inbox'[c] = inbox[c]
             /\ \A m \in AllMsgs : c \in bc'[m].got => c \in bc[m].got]_vars

\* C2 witness: a handle left while a broadcast that started with it in the
\* list was in progress, and the broadcast finished without sending to it.
C2_Witness ==
    \E c \in AllHandles, m \in AllMsgs :
        /\ ws[c] = "ended"
        /\ bc[m].pc = "done"
        /\ c \in bc[m].start
        /\ c \notin bc[m].got \cup bc[m].failed
        /\ bc[m].got # {}

\* C3: a truck is idle exactly when its route is empty.
C3_IdleIffNoRoute ==
    \A t \in 1..Len(trucks) : trucks[t].status = "idle" <=> trucks[t].route = << >>

\* The positions of the idle trucks of a tool argument.
IdleIn(trs) == {i \in 1..Len(trs) : trs[i].status = "idle"}

\* C4: a successful dispatch names an idle truck of the input whose
\* efficiency is the maximum over the idle trucks and which is the first of
\* the input with that efficiency; the dispatch succeeds whenever a truck is
\* idle; on the seeded fleet, all idle, the truck with 98.5 is chosen.
C4_BestIdleFirst ==
    tool.pc = "done" =>
        LET trs == tool.input
            b == tool.result.dispatched_truck
        IN  /\ tool.result.success <=> IdleIn(trs) # {}
            /\ tool.result.success =>
                 /\ b \in IdleIn(trs)
                 /\ \A j \in IdleIn(trs) :
                        /\ EfficiencyKey(trs[j]) <= EfficiencyKey(trs[b])
                        /\ EfficiencyKey(trs[j]) = EfficiencyKey(trs[b]) => b <= j
                 /\ tool.result.efficiency_rating = EfficiencyKey(trs[b])
            /\ (/\ Len(trs) = Len(_initialize_trucks)
                /\ \A i \in 1..Len(trs) :
                       /\ trs[i].status = _initialize_trucks[i].status
                       /\ EfficiencyKey(trs[i]) = _initialize_trucks[i].efficiency)
               => /\ tool.result.success
                  /\ b = 1
                  /\ tool.result.efficiency_rating = 985

\* C4 witness: two idle trucks share the maximum efficiency of the idle
\* trucks, a truck that is not idle has a higher one and comes first, and the
\* first of the two idle ones was dispatched.
C4_Witness ==
    /\ tool.pc = "done"
    /\ tool.result.success
    /\ \E k, i, j \in 1..Len(tool.input) :
          /\ k < i /\ i < j
          /\ tool.input[k].status = "en-route"
          /\ tool.trucks[k] = tool.input[k]
          /\ tool.input[i].status = "idle" /\ tool.input[j].status = "idle"
          /\ EfficiencyKey(tool.input[k]) > EfficiencyKey(tool.input[i])
          /\ EfficiencyKey(tool.input[i]) = EfficiencyKey(tool.input[j])
          /\ tool.result.dispatched_truck = i
          /\ tool.trucks[i].status = "en-route"
          /\ tool.trucks[j].status = "idle"

\* C5: with no idle truck in the input the tool returns a failure that
\* carries a recommendation, and every truck dict is as it was passed in.
C5_NoIdleNoChange ==
    (tool.pc = "done" /\ IdleIn(tool.input) = {})
    => /\ ~tool.result.success
       /\ tool.result.recommendation # ""
       /\ tool.trucks = tool.input

\* C5 witness: the tool ran on two or more trucks, none of them idle.
C5_Witness ==
    /\ tool.pc = "done"
    /\ Len(tool.input) >= 2
    /\ IdleIn(tool.input) = {}
    /\ ~tool.result.success

\* C6: a truck that a dispatch request succeeded for is en-route, its route
\* is the waypoint list of the route the request named and its total_stops
\* the number of those waypoints.
C6_DispatchSetsRoute ==
    \A t \in 1..Len(trucks) :
        dispatch_log[t] # 0
        => /\ trucks[t].status = "en-route"
           /\ trucks[t].route = PlannedWaypoints(dispatch_log[t])
           /\ trucks[t].total_stops = Len(PlannedWaypoints(dispatch_log[t]))

\* C7: every step that takes a truck from idle to en-route adds one to
\* active_routes and sets efficiency_score to min(99, efficiency_score + 0.5);
\* a step that is neither such a dispatch nor a telemetry tick leaves both
\* metrics as they are.
C7_OnlyDispatchCounts ==
    [][LET dispatched ==
               \E t \in 1..Len(trucks) :
                   trucks[t].status = "idle" /\ trucks'[t].status = "en-route"
           ticked == TickMsgs' # TickMsgs
       IN  /\ dispatched =>
                /\ performance_metrics'.active_routes =
                       performance_metrics.active_routes + 1
                /\ performance_metrics'.efficiency_score =
                       Min(ScoreCap, performance_metrics.efficiency_score + ScoreStep)
           /\ (~dispatched /\ ~ticked) =>
                /\ performance_metrics'.active_routes = performance_metrics.active_routes
                /\ performance_metrics'.efficiency_score =
                       performance_metrics.efficiency_score]_vars

\* C8: the waypoints of a planned route are one pickup per warehouse, in the
\* order of the warehouse list, followed by one delivery per request, in the
\* order of the delivery list.
C8_CallerOrderKept ==
    (planner.pc = "done" /\ planner.result.success) =>
        LET wps == planner.result.route.waypoints
            nw == Len(planner.warehouses)
            nd == Len(planner.deliveries)
        IN  /\ Len(wps) = nw + nd
            /\ \A i \in 1..nw :
                   /\ wps[i].type = "pickup"
                   /\ wps[i].name = planner.warehouses[i].name
                   /\ wps[i].lat = planner.warehouses[i].lat
                   /\ wps[i].lng = planner.warehouses[i].lng
            /\ \A j \in 1..nd :
                   /\ wps[nw + j].type = "delivery"
                   /\ wps[nw + j].name = planner.deliveries[j].name
                   /\ wps[nw + j].lat = planner.deliveries[j].lat
                   /\ wps[nw + j].lng = planner.deliveries[j].lng

\* C8 witness: a route was planned for two warehouses and two deliveries,
\* all four different, the deliveries not in order of position.
C8_Witness ==
    /\ planner.pc = "done"
    /\ planner.result.success
    /\ Len(planner.warehouses) = 2
    /\ Len(planner.deliveries) = 2
    /\ Cardinality(Range(planner.warehouses) \cup Range(planner.deliveries)) = 4
    /\ planner.deliveries[1].lat > planner.deliveries[2].lat
    /\ planner.result.route.waypoints[4].name = planner.deliveries[2].name

\* C9 as stated: the efficiency of a planned route lies in [85, 99], is 99
\* at distance 0 and is 85 at every distance of 140 miles or more.
C9_EfficiencyBand140 ==
    (planner.pc = "done" /\ planner.result.success) =>
        LET d == planner.result.route.distance
            e == planner.result.route.efficiency
        IN  /\ 8500 <= e /\ e <= 9900
            /\ d = 0 => e = 9900
            /\ d >= 1400 => e = 8500

\* C9 as amended: the efficiency of a planned route lies in [85, 99], is 99
\* at distance 0 and is 85 at every distance of 150 miles or more.
C9_EfficiencyBand150 ==
    (planner.pc = "done" /\ planner.result.success) =>
        LET d == planner.result.route.distance
            e == planner.result.route.efficiency
        IN  /\ 8500 <= e /\ e <= 9900
            /\ d = 0 => e = 9900
            /\ d >= 1500 => e = 8500

\* C9 witness: a route of exactly 150 miles was planned and scored 85.
C9_Witness ==
    /\ planner.pc = "done"
    /\ planner.result.success
    /\ planner.result.route.distance = 1500
    /\ planner.result.route.efficiency = 8500

\* C10: planning fails when the delivery list is empty or an entry lacks a
\* latitude or a longitude, and succeeds otherwise.
C10_ValidationFailure ==
    planner.pc = "done" =>
        LET entries == planner.warehouses \o planner.deliveries
            invalid ==
                \/ planner.deliveries = << >>
                \/ \E i \in 1..Len(entries) : ~({"lat", "lng"} \subseteq entries[i].keys)
        IN  planner.result.success <=> ~invalid

\* The last three observations of a history of three or more: their sum and
\* the most recent minus the third most recent.
LastThree(h) == h[Len(h) - 2] + h[Len(h) - 1] + h[Len(h)]
Rise(h) == h[Len(h)] - h[Len(h) - 2]

\* What the forecast of history h is when it is not computed from three
\* observations, and the label of the trend term's sign.
ShortForecast(h) ==
    [predicted_demand |-> IF Len(h) = 0 THEN 0 ELSE h[Len(h)], confidence |-> 50,
     trend |-> "insufficient_data"]
SignLabel(x) == IF x > 0 THEN "increasing" ELSE IF x < 0 THEN "decreasing" ELSE "stable"

\* C11 as stated: with three or more observations the prediction is the
\* integer nearest to average(last three) + (most recent - third most
\* recent)/2, with confidence 0.85 and the trend labelled by the sign of the
\* trend term; with fewer it is the last observation (0 for an empty
\* history) with confidence 0.5 and insufficient_data.
C11_ForecastAsStated ==
    forecaster.pc = "done" =>
        \A p \in ForecastProducts :
            LET h == forecaster.historical_data[p]
                f == forecaster.result.forecasts[p]
            IN  IF Len(h) >= 3
                THEN /\ 6 * f.predicted_demand - (2 * LastThree(h) + 3 * Rise(h)) \in -3..3
                     /\ f.confidence = 85
                     /\ f.trend = SignLabel(Rise(h))
                ELSE f = ShortForecast(h)

\* C11 as amended: as above, but the sum of average and trend term is raised
\* to 0 when negative before it is rounded, and a sum halfway between two
\* integers is rounded to the even one. [120,140,160,180,200] gives 200,
\* 0.85, increasing and [50] gives 50, 0.5, insufficient_data.
C11_ForecastClamped ==
    forecaster.pc = "done" =>
        \A p \in ForecastProducts :
            LET h == forecaster.historical_data[p]
                f == forecaster.result.forecasts[p]
                sixths == IF Len(h) >= 3 THEN Max(0, 2 * LastThree(h) + 3 * Rise(h)) ELSE 0
            IN  /\ IF Len(h) >= 3
                   THEN /\ 6 * f.predicted_demand - sixths \in -3..3
                        /\ sixths % 6 = 3 => f.predicted_demand % 2 = 0
                        /\ f.confidence = 85
                        /\ f.trend = SignLabel(Rise(h))
                   ELSE f = ShortForecast(h)
                /\ h = <<120, 140, 160, 180, 200>>
                   => f = [predicted_demand |-> 200, confidence |-> 85, trend |-> "increasing"]
                /\ h = <<50>>
                   => f = [predicted_demand |-> 50, confidence |-> 50,
                           trend |-> "insufficient_data"]

\* C11 witness: one product's history sums to less than 0 and was forecast
\* as 0, the other's comes to 1.5 and was forecast as 2.
C11_Witness ==
    /\ forecaster.pc = "done"
    /\ forecaster.historical_data["cereal"] = <<4, 0, 0>>
    /\ forecaster.result.forecasts["cereal"].predicted_demand = 0
    /\ forecaster.result.forecasts["cereal"].trend = "decreasing"
    /\ forecaster.historical_data["milk"] = <<4, 4, 1>>
    /\ forecaster.result.forecasts["milk"].predicted_demand = 2

\* C12: the predicted demand of every product, for a history of any length
\* and with any values, is not negative.
C12_PredictionNotNegative ==
    forecaster.pc = "done" =>
        \A p \in ForecastProducts : forecaster.result.forecasts[p].predicted_demand >= 0

\* The last crew call named a warehouse id that is not in the list, or a
\* region that has no history.
UnknownTarget(c, whs) ==
    \/ /\ c.method \in {"optimize_route", "handle_emergency_restock"}
       /\ \A i \in 1..Len(whs) : whs[i].id # c.id
    \/ /\ c.method = "forecast_demand"
       /\ c.name \notin {"Dallas", "Houston", "Austin"}

\* C13: a call of optimize_route or handle_emergency_restock with an unknown
\* warehouse id, or of forecast_demand with a region without history,
\* returns a failure without running the agents, and the step leaves the
\* warehouses, the trucks and the performance metrics as they were.
C13_NotFoundFailsAtOnce ==
    [][(call' # call /\ UnknownTarget(call', warehouses))
       => /\ call'.outcome = "returned"
          /\ ~call'.result.success
          /\ call'.result.error # ""
          /\ ~call'.kickoff
          /\ warehouses' = warehouses
          /\ trucks' = trucks
          /\ performance_metrics' = performance_metrics]_vars

\* C13 witness: after a route was planned, and with a truck dispatched,
\* handle_emergency_restock was called with an id that is not in the
\* non-empty warehouse list and returned a failure.
C13_Witness ==
    /\ call.method = "handle_emergency_restock"
    /\ warehouses # << >>
    /\ UnknownTarget(call, warehouses)
    /\ call.outcome = "returned"
    /\ ~call.result.success
    /\ performance_metrics.active_routes > 0
    /\ \E t \in 1..Len(trucks) : trucks[t].status = "en-route"

\* C14: the source warehouses listed for an emergency restock are exactly
\* the warehouses whose id differs from the target's and which hold more
\* than 100 units of the product, a product missing from an inventory
\* counting as 0; they keep the order of the warehouse list.
C14_DonorsOver100 ==
    (call.method = "handle_emergency_restock" /\ call.kickoff) =>
        LET sources == call.task.sources
            donor(w) == /\ w.id # call.id
                        /\ call.name \in DOMAIN w.inventory
                        /\ w.inventory[call.name] > 100
        IN  /\ \A i \in 1..Len(warehouses) :
                   (\E k \in 1..Len(sources) : sources[k] = warehouses[i])
                   <=> donor(warehouses[i])
            /\ \A k \in 1..Len(sources) : \E i \in 1..Len(warehouses) : warehouses[i] = sources[k]
            /\ \A k \in 1..Len(sources) : sources[k].id # call.id
            /\ \A j, k \in 1..Len(sources) : j < k => sources[j].id < sources[k].id

\* C14 witness: the target holds 890 units of milk itself and the other
\* warehouse 101, and the sources listed are that other warehouse alone.
C14_Witness ==
    /\ call.method = "handle_emergency_restock"
    /\ call.kickoff
    /\ call.name = "milk"
    /\ Len(warehouses) = 2
    /\ \E i, j \in 1..2 :
          /\ warehouses[i].id = call.id
          /\ "milk" \in DOMAIN warehouses[i].inventory
          /\ warehouses[i].inventory["milk"] = 890
          /\ "milk" \in DOMAIN warehouses[j].inventory
          /\ warehouses[j].inventory["milk"] = 101
          /\ call.task.sources = <<warehouses[j]>>

\* The keys of an emergency plan.
PlanKeys == {"success", "emergency_type", "warehouse", "product", "action_plan", "timestamp"}

\* C15: handle_emergency_restock for a known warehouse, when it returns,
\* returns a success; with no idle truck that result carries, beyond the
\* keys of a plan, a key that tells that no truck is available.
C15_NoTruckIndicated ==
    (/\ call.method = "handle_emergency_restock"
     /\ call.outcome = "returned"
     /\ ~UnknownTarget(call, warehouses))
    => /\ call.result.success
       /\ (\A t \in 1..Len(trucks) : trucks[t].status # "idle")
          => call.result.keys \ PlanKeys # {}

\* A step in which a pass of the telemetry loop ran.
Ticked == TickMsgs' # TickMsgs

\* C16: a telemetry tick leaves every truck that is not en-route as it was,
\* changes of an en-route truck at most lat, lng, fuel_saved and co2_reduced,
\* and changes no warehouse.
C16_TickFrame ==
    [][Ticked =>
         /\ Len(trucks') = Len(trucks)
         /\ \A t \in 1..Len(trucks) :
                /\ trucks[t].status # "en-route" => trucks'[t] = trucks[t]
                /\ trucks'[t] = [trucks[t] EXCEPT !.lat = trucks'[t].lat,
                                                  !.lng = trucks'[t].lng,
                                                  !.fuel_saved = trucks'[t].fuel_saved,
                                                  !.co2_reduced = trucks'[t].co2_reduced]
         /\ warehouses' = warehouses]_vars

\* C16 witness: a tick ran with T001 en-route and the other trucks idle; T001
\* has moved and saved fuel, the others are as seeded.
C16_Witness ==
    /\ TickMsgs # {}
    /\ trucks[1].status = "en-route"
    /\ trucks[1].lat # 0 /\ trucks[1].lng # 0
    /\ trucks[1].fuel_saved > 0 /\ trucks[1].co2_reduced > 0
    /\ \A t \in 2..Len(trucks) : trucks[t] = _initialize_trucks[t]

\* C17: no step lowers the fuel_saved or the co2_reduced of any truck.
C17_SavingsNeverDecrease ==
    [][\A t \in 1..Len(trucks) :
          /\ trucks'[t].fuel_saved >= trucks[t].fuel_saved
          /\ trucks'[t].co2_reduced >= trucks[t].co2_reduced]_vars

\* C17 witness: T002 was dispatched and a tick added to its fuel_saved and
\* nothing to its co2_reduced.
C17_Witness ==
    /\ TickMsgs # {}
    /\ trucks[2].status = "en-route"
    /\ trucks[2].fuel_saved > 0
    /\ trucks[2].co2_reduced = 0

\* C18: the efficiency score is at most 99.
C18_ScoreAtMost99 == performance_metrics.efficiency_score <= 990

\* C18 witness: the score is 99 after a tick ran and its broadcast finished.
C18_Witness ==
    /\ performance_metrics.efficiency_score = 990
    /\ \E m \in TickMsgs : bc[m].pc = "done" /\ bc[m].got # {}

\* C19: the first message handed to a subscriber is the system_status
\* snapshot, and no later one is.
C19_SnapshotFirst ==
    \A c \in AllHandles :
        inbox[c] # << >>
        => /\ inbox[c][1] = Snapshot
           /\ \A i \in 2..Len(inbox[c]) : inbox[c][i] # Snapshot

\* C19 witness: a handle joined while a broadcast was in progress, the
\* broadcast then reached it, and its inbox is the snapshot followed by
\* that message.
C19_Witness ==
    \E c \in AllHandles, m \in AllMsgs :
        /\ bc[m].pc = "done"
        /\ c \notin bc[m].start
        /\ c \in bc[m].got
        /\ inbox[c] = <<Snapshot, Broadcast(m)>>

\* C20: a telemetry broadcast that is sending, whether or not a subscriber
\* has stopped reading, eventually ends.
C20_TickFinishes ==
    \A m \in AllMsgs :
        (bc[m].caller = "real_time_update" /\ bc[m].pc = "sending")
        ~> (bc[m].pc \in {"done", "raised"})

\* C21: no broadcast ends by raising an error to its caller.
C21_BroadcastNeverRaises == \A m \in AllMsgs : bc[m].pc # "raised"

\* C29: no connection handler ends with its disconnect raising an error.
C29_UnsubscribeNeverFails == \A c \in AllHandles : ws[c] # "crashed"

\* C24: when a broadcast in which no delivery failed has ended, every
\* subscriber that was registered when it started and is registered now was
\* sent the message, and no subscriber was handed it twice.
C24_JoinLeaveKeepsIteration ==
    \A m \in AllMsgs :
        (bc[m].pc = "done" /\ bc[m].failed = {})
        => /\ \A c \in bc[m].start \cap Range(active_connections) : c \in bc[m].got
           /\ \A c \in AllHandles :
                  Cardinality({i \in 1..Len(inbox[c]) : inbox[c][i] = Broadcast(m)}) <= 1

\* C25: the active_routes counter equals the number of trucks that are not
\* idle, which is the figure the metrics query reports.
C25_ActiveRoutesIsBusyTrucks ==
    performance_metrics.active_routes
        = Cardinality({t \in DOMAIN trucks : trucks[t].status # "idle"})

\* C27: the efficiency score is never negative.
C27_ScoreNotNegative == performance_metrics.efficiency_score >= 0

\* A step of get_real_time_status.
StatusStep == call'.method = "get_real_time_status" /\ call' # call

\* C22: get_real_time_status changes no warehouse, truck or metric, and when
\* the collections are as the previous call in a row returned them, it
\* returns the same warehouse and truck entries again.
C22_StatusReadOnly ==
    [][StatusStep =>
          /\ UNCHANGED <<warehouses, trucks, performance_metrics>>
          /\ (/\ call.method = "get_real_time_status"
              /\ call.result.warehouses.details = warehouses
              /\ call.result.fleet.details = trucks)
             => /\ call'.result.warehouses = call.result.warehouses
                /\ call'.result.fleet = call.result.fleet]_vars

\* C22 witness: a second call in a row has returned, after a dispatch and a
\* planning request, what the first returned.
C22_Witness ==
    /\ call.method = "get_real_time_status"
    /\ call.nth = 2
    /\ call.result.fleet.active_trucks = 1
    /\ call.result.fleet.average_efficiency = 976
    /\ call.result.performance_metrics.active_routes = 1
    /\ call.result.warehouses.details = warehouses

\* C23: every truck starts idle, and a truck that is en-route is en-route
\* after every step.
C23_NoWayBackToIdle ==
    /\ \A t \in 1..Len(trucks) : trucks[t].status = "idle"
    /\ [][\A t \in 1..Len(trucks) :
              trucks[t].status = "en-route" => trucks'[t].status = "en-route"]_vars

\* C23 witness: a dispatched truck has drifted in a pass whose broadcast has
\* ended, and is en-route still.
C23_Witness ==
    \E t \in 1..Len(trucks), k \in TickMsgs :
        /\ bc[k].pc = "done"
        /\ dispatch_log[t] # 0
        /\ trucks[t].lat # 0
        /\ trucks[t].status = "en-route"

\* C26: a truck's dispatch record changes only when the truck is idle and
\* undispatched, and the truck is en-route afterwards; a truck that is not
\* idle keeps its status; a rejected request is for a truck that is not idle
\* and changes no truck.
C26_OneDispatchPerTruck ==
    [][/\ \A t \in 1..Len(trucks) :
             /\ dispatch_log'[t] # dispatch_log[t]
                => /\ dispatch_log[t] = 0
                   /\ trucks[t].status = "idle"
                   /\ trucks'[t].status = "en-route"
             /\ trucks[t].status # "idle" => trucks'[t].status = trucks[t].status
       /\ (call'.method = "dispatch_truck" /\ call' # call)
          => /\ call'.outcome = "raised"
             /\ trucks[call'.id].status # "idle"
             /\ UNCHANGED <<trucks, dispatch_log>>]_vars

\* C26 witness: a truck was dispatched, a pass of the telemetry loop made it
\* drift, and a second request for it was rejected.
C26_Witness ==
    /\ call.method = "dispatch_truck"
    /\ call.outcome = "raised"
    /\ dispatch_log[call.id] # 0
    /\ trucks[call.id].lat # 0
    /\ trucks[call.id].status = "en-route"

\* C28: whenever the telemetry loop is due for a pass and a truck is
\* en-route, the pass that drifts the trucks can be taken, whether or not
\* a subscriber is connected.
C28_DriftWithoutObservers ==
    (/\ EnRoute # {}
     /\ ~TickRunning
     /\ \E m \in TelemetryMsgs : Fresh(m))
    => ENABLED (\E m \in TelemetryMsgs : TickPass(m))

====
